---- MODULE Spec2Model ----
(***************************************************************************)
(* Railway reservation system of train_reservation_system.py.              *)
(*                                                                         *)
(* Train and Ticket are heap objects.  Train objects live in train_objs    *)
(* (a Ticket keeps a reference to its Train object, which outlives a       *)
(* replacement of the directory entry by add_train); the dictionaries      *)
(* trains and tickets are functions from key strings to the objects.       *)
(* A PNR is a string of decimal digits, modelled as a sequence of digits.  *)
(* A passenger list is modelled by its length: names and ages are only     *)
(* printed.                                                                *)
(***************************************************************************)
EXTENDS Integers, Sequences, FiniteSets, TLC

\* ---- bounds of the model ----
MaxTrainObjs == 2
MaxTickets == 2
MaxSeats == 2
MaxPassengers == 2

\* ---- program constants ----
\* random.randint(1000000, 9999999): the counter starts at the top of the range,
\* so that the first PNR issued is one digit longer than the seed
Seed == 9999999

\* train numbers typed by the operator: one that add_train registers (and registers
\* again, replacing the directory entry), one never registered
TrainNos == {"12028"}
UnknownTrainNo == "99999"
\* int(input(...)) for the number of passengers: a number, or ValueError
ValueError == [valid |-> FALSE, value |-> 0]
CountInputs ==
    {[valid |-> TRUE, value |-> n] : n \in 0 .. MaxPassengers} \cup {ValueError}

VARIABLES trains, train_objs, tickets, pnr_counter, op, out
vars == <<trains, train_objs, tickets, pnr_counter, op, out>>
\* the state of the reservation system proper, without the record of the last call
system == <<trains, train_objs, tickets, pnr_counter>>

\* ---- pure helpers ----

\* the digits written least significant first
RECURSIVE str_reversed(_)
str_reversed(n) == IF n < 10 THEN <<n>> ELSE <<n % 10>> \o str_reversed(n \div 10)

\* the digits after the first one dropped
RECURSIVE str_short(_)
str_short(n) == IF n < 10 THEN <<n>> ELSE str_short(n \div 10)

\* str(int) for a non-negative integer: its decimal digits, most significant first
RECURSIVE str(_)
str(n) == IF n < 10 THEN <<n>> ELSE Append(str(n \div 10), n % 10)

\* the count of the entries passed over forgotten
RECURSIVE index1_unshifted(_, _)
index1_unshifted(s, x) ==
    IF s = <<>> THEN 0
    ELSE IF Head(s) = x THEN 1
    ELSE index1_unshifted(Tail(s), x)

\* list.index(x) + 1, or 0 where Python raises ValueError
RECURSIVE index1(_, _)
index1(s, x) ==
    IF s = <<>> THEN 0
    ELSE IF Head(s) = x THEN 1
    ELSE LET r == index1(Tail(s), x) IN IF r = 0 THEN 0 ELSE r + 1

\* Train(train_no, ..., total_seats)
Train(train_no, total_seats) ==
    [train_no |-> train_no, total_seats |-> total_seats,
     available_seats |-> total_seats, waiting_list |-> <<>>]

check_availability(train) == train.available_seats

\* a new Ticket confirmed only when seats are left over
initial_status_strict(train, n) ==
    IF check_availability(train) > n THEN "Confirmed" ELSE "Waiting"

\* a new Ticket confirmed whenever the train is not overbooked yet
initial_status_lenient(train, n) ==
    IF check_availability(train) >= 0 THEN "Confirmed" ELSE "Waiting"

\* the status a new Ticket gets
initial_status(train, n) ==
    IF check_availability(train) >= n THEN "Confirmed" ELSE "Waiting"

\* only negative numbers rejected
count_rejected_negative(num_passengers) == num_passengers < 0

\* the number of passengers is rejected
count_rejected(num_passengers) == num_passengers <= 0

\* the status compared with a misspelt word
already_cancelled_misspelt(ticket) == ticket.status = "Canceled"

already_cancelled(ticket) == ticket.status = "Cancelled"

\* the status test turned round: == where the code has !=
seats_returned_flipped(tks, ticket) ==
    /\ \E p \in DOMAIN tks : tks[p] = ticket
    /\ ticket.status = "Cancelled"

\* seats returned for every cancelled ticket, whatever its status
seats_returned_always(tks, ticket) ==
    \E p \in DOMAIN tks : tks[p] = ticket

\* the test guarding the return of seats, evaluated after the ticket is marked
seats_returned(tks, ticket) ==
    /\ \E p \in DOMAIN tks : tks[p] = ticket
    /\ ticket.status # "Cancelled"

\* the promotion test with the comparison turned round
head_fits_inverted(available_seats, ticket_to_confirm) ==
    available_seats <= ticket_to_confirm.passengers

\* the promotion test on the head of the waiting list
head_fits(available_seats, ticket_to_confirm) ==
    available_seats >= ticket_to_confirm.passengers

\* what the last call printed: the message, and the PNR, status, waiting-list
\* position and promoted PNR it mentions
NoOut == [msg |-> "none", pnr |-> <<>>, status |-> "none", position |-> 0,
          promoted |-> <<>>]

Init ==
    /\ trains = <<>>
    /\ train_objs = <<>>
    /\ tickets = <<>>
    /\ pnr_counter = Seed
    /\ op = "none"
    /\ out = NoOut

\* ---- operations ----

add_train(train_no, total_seats) ==
    /\ Len(train_objs) < MaxTrainObjs
    /\ train_objs' = Append(train_objs, Train(train_no, total_seats))
    /\ trains' = [k \in DOMAIN trains \cup {train_no} |->
                    IF k = train_no THEN Len(train_objs) + 1 ELSE trains[k]]
    /\ op' = "add_train"
    /\ out' = [NoOut EXCEPT !.msg = "added"]
    /\ UNCHANGED <<tickets, pnr_counter>>

book_ticket(train_no, typed) ==
    /\ op' = "book_ticket"
    /\ IF train_no \notin DOMAIN trains THEN
          /\ out' = [NoOut EXCEPT !.msg = "invalid_train"]
          /\ UNCHANGED system
       ELSE IF ~typed.valid THEN
          /\ out' = [NoOut EXCEPT !.msg = "invalid_input"]
          /\ UNCHANGED system
       ELSE IF count_rejected(typed.value) THEN
          /\ out' = [NoOut EXCEPT !.msg = "invalid_count"]
          /\ UNCHANGED system
       ELSE
          LET num_passengers == typed.value
              t == trains[train_no]
              selected_train == train_objs[t]
              pnr == str(pnr_counter + 1)
              status == initial_status(selected_train, num_passengers)
              new_ticket == [pnr |-> pnr, train |-> t, passengers |-> num_passengers,
                             status |-> status]
              wl == Append(selected_train.waiting_list, pnr)
          IN
          /\ Cardinality(DOMAIN tickets) < MaxTickets
          /\ pnr_counter' = pnr_counter + 1
          /\ tickets' = [k \in DOMAIN tickets \cup {pnr} |->
                            IF k = pnr THEN new_ticket ELSE tickets[k]]
          /\ train_objs' =
                IF new_ticket.status = "Confirmed"
                THEN [train_objs EXCEPT ![t].available_seats = @ - num_passengers]
                ELSE [train_objs EXCEPT ![t].waiting_list = wl]
          /\ out' = IF new_ticket.status = "Confirmed"
                    THEN [NoOut EXCEPT !.msg = "booked", !.pnr = pnr,
                                       !.status = new_ticket.status]
                    ELSE [NoOut EXCEPT !.msg = "booked", !.pnr = pnr,
                                       !.status = new_ticket.status,
                                       !.position = Len(wl)]
          /\ UNCHANGED trains

\* a cancellation that confirms every entry of the waiting list, with no test
\* of the seats
cancel_ticket_confirm_all(pnr_to_cancel) ==
    /\ op' = "cancel_ticket"
    /\ IF pnr_to_cancel \notin DOMAIN tickets THEN
          /\ out' = [NoOut EXCEPT !.msg = "invalid_pnr"]
          /\ UNCHANGED system
       ELSE IF already_cancelled(tickets[pnr_to_cancel]) THEN
          /\ out' = [NoOut EXCEPT !.msg = "already_cancelled"]
          /\ UNCHANGED system
       ELSE
          LET t == tickets[pnr_to_cancel].train
              marked == [tickets EXCEPT ![pnr_to_cancel].status = "Cancelled"]
              wl == train_objs[t].waiting_list
              listed(p) == \E i \in 1 .. Len(wl) : wl[i] = p
          IN
          /\ tickets' = [p \in DOMAIN marked |->
                            IF listed(p) THEN [marked[p] EXCEPT !.status = "Confirmed"]
                            ELSE marked[p]]
          /\ train_objs' = [train_objs EXCEPT ![t].waiting_list = <<>>]
          /\ out' = IF wl # <<>>
                    THEN [NoOut EXCEPT !.msg = "cancelled", !.pnr = pnr_to_cancel,
                                       !.promoted = Head(wl)]
                    ELSE [NoOut EXCEPT !.msg = "cancelled", !.pnr = pnr_to_cancel]
          /\ UNCHANGED <<trains, pnr_counter>>

cancel_ticket(pnr_to_cancel) ==
    /\ op' = "cancel_ticket"
    /\ IF pnr_to_cancel \notin DOMAIN tickets THEN
          /\ out' = [NoOut EXCEPT !.msg = "invalid_pnr"]
          /\ UNCHANGED system
       ELSE IF already_cancelled(tickets[pnr_to_cancel]) THEN
          /\ out' = [NoOut EXCEPT !.msg = "already_cancelled"]
          /\ UNCHANGED system
       ELSE
          LET ticket_to_cancel == tickets[pnr_to_cancel]
              t == ticket_to_cancel.train
              num_passengers == ticket_to_cancel.passengers
              marked == [tickets EXCEPT ![pnr_to_cancel].status = "Cancelled"]
              available == IF seats_returned(marked, marked[pnr_to_cancel])
                           THEN train_objs[t].available_seats + num_passengers
                           ELSE train_objs[t].available_seats
              wl == train_objs[t].waiting_list
              promote == wl # <<>> /\ head_fits(available, marked[Head(wl)])
          IN
          /\ tickets' = IF promote
                        THEN [marked EXCEPT ![Head(wl)].status = "Confirmed"]
                        ELSE marked
          /\ train_objs' =
                IF promote
                THEN [train_objs EXCEPT
                        ![t].available_seats = available - marked[Head(wl)].passengers,
                        ![t].waiting_list = Tail(wl)]
                ELSE [train_objs EXCEPT ![t].available_seats = available]
          /\ out' = IF promote
                    THEN [NoOut EXCEPT !.msg = "cancelled", !.pnr = pnr_to_cancel,
                                       !.promoted = Head(wl)]
                    ELSE [NoOut EXCEPT !.msg = "cancelled", !.pnr = pnr_to_cancel]
          /\ UNCHANGED <<trains, pnr_counter>>

check_pnr_status(pnr_to_check) ==
    /\ op' = "check_pnr_status"
    /\ IF pnr_to_check \in DOMAIN tickets THEN
          LET ticket == tickets[pnr_to_check]
              position == index1(train_objs[ticket.train].waiting_list, pnr_to_check)
          IN
          out' = IF ticket.status = "Waiting"
                 THEN IF position = 0
                      THEN [NoOut EXCEPT !.msg = "ValueError", !.pnr = pnr_to_check,
                                         !.status = ticket.status]
                      ELSE [NoOut EXCEPT !.msg = "status", !.pnr = pnr_to_check,
                                         !.status = ticket.status,
                                         !.position = position]
                 ELSE [NoOut EXCEPT !.msg = "status", !.pnr = pnr_to_check,
                                    !.status = ticket.status]
       ELSE
          out' = [NoOut EXCEPT !.msg = "invalid_pnr"]
    /\ UNCHANGED system

\* the number of passengers is asked for only once the train number is accepted
CountInputsFor(train_no) ==
    IF train_no \in DOMAIN trains THEN CountInputs ELSE {ValueError}

\* PNR strings the operator may type: every stored one, and the next one to be
\* issued, which is not stored yet
PnrInputs == DOMAIN tickets \cup {str(pnr_counter + 1)}

Next ==
    \/ \E train_no \in TrainNos, total_seats \in 1 .. MaxSeats :
          add_train(train_no, total_seats)
    \/ \E train_no \in TrainNos \cup {UnknownTrainNo} :
          \E typed \in CountInputsFor(train_no) : book_ticket(train_no, typed)
    \/ \E p \in PnrInputs : cancel_ticket(p)
    \/ \E p \in PnrInputs : check_pnr_status(p)

Spec == Init /\ [][Next]_vars

\* ---- notation for the properties ----

TrainIds == 1 .. Len(train_objs)
Pnrs == DOMAIN tickets
Available(t) == train_objs[t].available_seats
WaitingList(t) == train_objs[t].waiting_list
InList(x, s) == \E i \in 1 .. Len(s) : s[i] = x

RECURSIVE SumPassengers(_)
SumPassengers(S) ==
    IF S = {} THEN 0
    ELSE LET p == CHOOSE q \in S : TRUE
         IN tickets[p].passengers + SumPassengers(S \ {p})

ConfirmedSeats(t) ==
    SumPassengers({p \in Pnrs : tickets[p].train = t /\ tickets[p].status = "Confirmed"})

\* the step is a cancel_ticket call that went through, on the ticket out'.pnr
Cancels == op' = "cancel_ticket" /\ out'.msg = "cancelled"
\* the step is a book_ticket call that created the ticket out'.pnr
Books == op' = "book_ticket" /\ out'.msg = "booked"
\* seats the cancelled ticket gives back: its passengers if it was Confirmed
Credit(c) == IF tickets[c].status = "Confirmed" THEN tickets[c].passengers ELSE 0

\* ---- C1 ----
\* C1: for every train, available seats plus the passengers of the Confirmed
\* tickets on that train equal the train's total capacity, in every reachable state.
C1_SeatConservation ==
    \A t \in TrainIds :
        Available(t) + ConfirmedSeats(t) = train_objs[t].total_seats

\* ---- C2 ----
\* C2: every PNR in a train's waiting list is a stored ticket with status Waiting
\* whose train is that train, and no PNR appears twice in the list.
C2_WaitingListWellFormed ==
    \A t \in TrainIds :
        /\ \A i \in 1 .. Len(WaitingList(t)) :
              /\ WaitingList(t)[i] \in Pnrs
              /\ tickets[WaitingList(t)[i]].status = "Waiting"
              /\ tickets[WaitingList(t)[i]].train = t
        /\ \A i, j \in 1 .. Len(WaitingList(t)) :
              WaitingList(t)[i] = WaitingList(t)[j] => i = j

\* ---- C3 ----
\* C3: cancelling a Confirmed ticket with n passengers adds n to its train's
\* available seats before the head of the waiting list is inspected: afterwards
\* the available seats are the old ones plus n, less the passengers of the ticket
\* promoted by the call, if any.
C3_CancelConfirmedReturnsSeats ==
    [][(Cancels /\ tickets[out'.pnr].status = "Confirmed") =>
          LET c == out'.pnr
              t == tickets[c].train
              taken == IF out'.promoted = <<>> THEN 0
                       ELSE tickets[out'.promoted].passengers
          IN train_objs'[t].available_seats + taken = Available(t) + tickets[c].passengers
      ]_vars

\* ---- C4 ----
\* C4: when a Confirmed ticket is cancelled and, with its seats returned, the
\* available seats are at least the passengers of the head of the waiting list,
\* the head becomes Confirmed in the same call, its passengers are subtracted and
\* it leaves the list (capacity 2: book 2, book 1, cancel the first: the second is
\* Confirmed, 1 seat is available, the list is empty).
C4_PromotionOnCancellation ==
    [][(/\ Cancels
        /\ tickets[out'.pnr].status = "Confirmed"
        /\ WaitingList(tickets[out'.pnr].train) # <<>>
        /\ Available(tickets[out'.pnr].train) + tickets[out'.pnr].passengers
              >= tickets[Head(WaitingList(tickets[out'.pnr].train))].passengers) =>
          LET c == out'.pnr
              t == tickets[c].train
              h == Head(WaitingList(t))
          IN /\ tickets'[h].status = "Confirmed"
             /\ train_objs'[t].available_seats =
                   Available(t) + tickets[c].passengers - tickets[h].passengers
             /\ train_objs'[t].waiting_list = Tail(WaitingList(t))
      ]_vars

\* ---- C5 ----
\* C5: cancelling a Waiting ticket takes its PNR out of its train's waiting list:
\* after the call the PNR is not in the list.
C5_CancelledWaitingLeavesList ==
    [][(Cancels /\ tickets[out'.pnr].status = "Waiting") =>
          ~InList(out'.pnr, train_objs'[tickets[out'.pnr].train].waiting_list)
      ]_vars

\* ---- C6 ----
\* C6: a booking of n >= 1 passengers on a registered train stores the new ticket
\* under its PNR; with available >= n the ticket is Confirmed, available drops by
\* n and the waiting list is unchanged; with available < n the ticket is Waiting,
\* its PNR is appended at the tail of the list and available is unchanged.
C6_BookTicketEffect ==
    [][Books =>
          LET p == out'.pnr
              tk == tickets'[p]
              t == tk.train
              n == tk.passengers
          IN /\ p \notin Pnrs
             /\ p \in DOMAIN tickets'
             /\ tk.pnr = p
             /\ out'.status = tk.status
             /\ n >= 1
             /\ t \in TrainIds
             /\ train_objs[t].train_no \in DOMAIN trains
             /\ trains[train_objs[t].train_no] = t
             /\ Available(t) >= n =>
                   /\ tk.status = "Confirmed"
                   /\ train_objs'[t].available_seats = Available(t) - n
                   /\ train_objs'[t].waiting_list = WaitingList(t)
             /\ Available(t) < n =>
                   /\ tk.status = "Waiting"
                   /\ train_objs'[t].waiting_list = Append(WaitingList(t), p)
                   /\ train_objs'[t].available_seats = Available(t)
      ]_vars

\* a booking has just joined a waiting list behind an earlier entry
C6_Witness ==
    /\ op = "book_ticket"
    /\ out.msg = "booked"
    /\ out.status = "Waiting"
    /\ out.position = 2
    /\ WaitingList(tickets[out.pnr].train)[2] = out.pnr

C8_StatusTransitions ==
    [][\A p \in Pnrs :
          /\ p \in DOMAIN tickets'
          /\ tickets'[p].status # tickets[p].status =>
                /\ Cancels
                /\ \/ /\ tickets[p].status \in {"Confirmed", "Waiting"}
                      /\ tickets'[p].status = "Cancelled"
                      /\ p = out'.pnr
                   \/ /\ tickets[p].status = "Waiting"
                      /\ tickets'[p].status = "Confirmed"
                      /\ p = out'.promoted
      ]_vars

\* a cancellation went through on a train whose waiting list is headed by a
\* ticket cancelled earlier, and that ticket is still Cancelled
C8_Witness ==
    /\ op = "cancel_ticket"
    /\ out.msg = "cancelled"
    /\ LET t == tickets[out.pnr].train
       IN /\ WaitingList(t) # <<>>
          /\ Head(WaitingList(t)) # out.pnr
          /\ tickets[Head(WaitingList(t))].status = "Cancelled"

\* ---- C9 ----
\* C9: cancel_ticket on a ticket that is already Cancelled is rejected with the
\* already-cancelled error and changes nothing: a cancellation that goes through
\* was not on a Cancelled ticket, and the rejected call leaves the trains, their
\* seats and waiting lists and every ticket as they were.
C9_AlreadyCancelledRejected ==
    [][/\ Cancels => tickets[out'.pnr].status # "Cancelled"
       /\ (op' = "cancel_ticket" /\ out'.msg = "already_cancelled") =>
             /\ UNCHANGED system
             /\ \E p \in Pnrs : tickets[p].status = "Cancelled"
      ]_vars

\* a second cancellation of a ticket has just been rejected
C9_Witness ==
    /\ op = "cancel_ticket"
    /\ out.msg = "already_cancelled"
    /\ \E p \in Pnrs : tickets[p].status = "Cancelled"

\* ---- C10 ----
\* C10: book_ticket with an unknown train number or a passenger count <= 0, and
\* cancel_ticket or check_pnr_status with an unknown PNR, are rejected and leave
\* the directory, every train, the ticket store and the PNR counter unchanged:
\* a call that goes through has a registered train, a count >= 1 and a stored PNR.
C10_RejectedCallsChangeNothing ==
    [][/\ out'.msg \in {"invalid_train", "invalid_input", "invalid_count",
                        "invalid_pnr"} => UNCHANGED system
       /\ Books =>
             /\ tickets'[out'.pnr].passengers >= 1
             /\ tickets'[out'.pnr].train \in TrainIds
             /\ train_objs[tickets'[out'.pnr].train].train_no \in DOMAIN trains
       /\ (op' = "cancel_ticket" /\ out'.msg \in {"cancelled", "already_cancelled"}) =>
             Pnrs # {}
       /\ Cancels => out'.pnr \in Pnrs
       /\ (op' = "check_pnr_status" /\ out'.msg # "invalid_pnr") => out'.pnr \in Pnrs
      ]_vars

\* a booking for zero passengers was rejected while a ticket was waiting
C10_Witness ==
    /\ op = "book_ticket"
    /\ out.msg = "invalid_count"
    /\ \E t \in TrainIds : WaitingList(t) # <<>>

\* ---- C11 ----
\* C11: add_train with a train number that is already in the directory fails and
\* leaves the directory unchanged: every number registered before the call is
\* still mapped to the same Train record, with its seats and waiting list.
C11_DuplicateTrainRejected ==
    [][op' = "add_train" =>
          \A k \in DOMAIN trains :
              /\ k \in DOMAIN trains'
              /\ trains'[k] = trains[k]
              /\ train_objs'[trains'[k]] = train_objs[trains[k]]
      ]_vars

\* ---- C12 ----
\* C12: for every train, 0 <= available seats <= total seats, in every reachable
\* state.
C12_SeatBounds ==
    \A t \in TrainIds :
        /\ 0 <= Available(t)
        /\ Available(t) <= train_objs[t].total_seats

\* a full train with a ticket waiting has just had a ticket cancelled
C12_Witness ==
    /\ op = "cancel_ticket"
    /\ out.msg = "cancelled"
    /\ Available(tickets[out.pnr].train) = 0
    /\ WaitingList(tickets[out.pnr].train) # <<>>

\* ---- C13 ----
\* int(pnr): the number a string of digits stands for
RECURSIVE PnrValue(_)
PnrValue(s) ==
    IF s = <<>> THEN 0
    ELSE 10 * PnrValue(SubSeq(s, 1, Len(s) - 1)) + s[Len(s)]

\* C13: every ticket is stored under its own PNR, which is a counter value issued
\* after the seed; there are as many tickets as counter increments (no booking
\* overwrote an entry, no two tickets share a PNR); and the ticket just booked
\* carries the new counter value, larger than the PNR of every earlier ticket.
C13_PnrUnique ==
    LET Values == {PnrValue(p) : p \in Pnrs}
    IN /\ \A p \in Pnrs : tickets[p].pnr = p
       /\ \A v \in Values : Seed < v /\ v <= pnr_counter
       /\ Cardinality(Values) = Cardinality(Pnrs)
       /\ Cardinality(Pnrs) = pnr_counter - Seed
       /\ (op = "book_ticket" /\ out.msg = "booked") =>
             /\ out.pnr \in Pnrs
             /\ PnrValue(out.pnr) = pnr_counter
             /\ \A q \in Pnrs \ {out.pnr} : PnrValue(q) < pnr_counter

\* a second ticket has just been booked
C13_Witness ==
    /\ op = "book_ticket"
    /\ out.msg = "booked"
    /\ Cardinality(Pnrs) = 2
    /\ pnr_counter = Seed + 2

\* ---- C14 ----
\* C14: a booking changes nothing but its train and the new ticket: every ticket
\* stored before is unchanged, the directory is unchanged, every other train is
\* unchanged, and the old waiting list of its train is a prefix of the new one.
C14_BookTicketFrame ==
    [][Books =>
          LET t == tickets'[out'.pnr].train
          IN /\ \A q \in Pnrs : q \in DOMAIN tickets' /\ tickets'[q] = tickets[q]
             /\ trains' = trains
             /\ Len(train_objs') = Len(train_objs)
             /\ \A u \in TrainIds \ {t} : train_objs'[u] = train_objs[u]
             /\ train_objs'[t].train_no = train_objs[t].train_no
             /\ train_objs'[t].total_seats = train_objs[t].total_seats
             /\ Len(train_objs'[t].waiting_list) >= Len(WaitingList(t))
             /\ SubSeq(train_objs'[t].waiting_list, 1, Len(WaitingList(t)))
                   = WaitingList(t)
      ]_vars

\* a ticket has just been booked while another train had a ticket waiting
C14_Witness ==
    /\ op = "book_ticket"
    /\ out.msg = "booked"
    /\ \E u \in TrainIds \ {tickets[out.pnr].train} : WaitingList(u) # <<>>

\* ---- C15 ----
\* the position is that of the first occurrence of pnr in the list wl
FirstAt(wl, pnr, position) ==
    /\ position \in 1 .. Len(wl)
    /\ wl[position] = pnr
    /\ \A i \in 1 .. position - 1 : wl[i] # pnr

\* C15: check_pnr_status on a Waiting ticket reports the 1-based position of the
\* first occurrence of its PNR in its train's waiting list; and in the state a
\* booking that yields Waiting leaves, the position the booking reported is that
\* same position (the length of the list after the append).
C15_WaitingPosition ==
    /\ (op = "check_pnr_status" /\ out.msg # "invalid_pnr") =>
          /\ out.pnr \in Pnrs
          /\ out.status = tickets[out.pnr].status
          /\ out.status = "Waiting" =>
                /\ out.msg = "status"
                /\ FirstAt(WaitingList(tickets[out.pnr].train), out.pnr, out.position)
    /\ (op = "book_ticket" /\ out.msg = "booked" /\ out.status = "Waiting") =>
          /\ out.position = Len(WaitingList(tickets[out.pnr].train))
          /\ FirstAt(WaitingList(tickets[out.pnr].train), out.pnr, out.position)

\* the status of the ticket queued second has just been asked for
C15_Witness ==
    /\ op = "check_pnr_status"
    /\ out.msg = "status"
    /\ out.status = "Waiting"
    /\ out.position = 2

\* ---- C16 ----
\* the entries of a waiting list other than the PNR c
Others(wl, c) == SelectSeq(wl, LAMBDA x : x # c)

C17_WaitingTicketsListed ==
    /\ \A p \in Pnrs :
          tickets[p].status = "Waiting" =>
             Cardinality({i \in 1 .. Len(WaitingList(tickets[p].train)) :
                             WaitingList(tickets[p].train)[i] = p}) = 1
    /\ out.msg # "ValueError"

\* the status of a Waiting ticket was found although a cancelled ticket is still
\* in the same list
C17_Witness ==
    /\ op = "check_pnr_status"
    /\ out.msg = "status"
    /\ out.status = "Waiting"
    /\ \E i \in 1 .. Len(WaitingList(tickets[out.pnr].train)) :
          tickets[WaitingList(tickets[out.pnr].train)[i]].status = "Cancelled"

C19_ArrivalOrder ==
    /\ [](\A t \in TrainIds :
             \A i \in 1 .. Len(WaitingList(t)) - 1 :
                PnrValue(WaitingList(t)[i]) < PnrValue(WaitingList(t)[i + 1]))
    /\ [][\A t \in TrainIds :
             \/ train_objs'[t].waiting_list = WaitingList(t)
             \/ /\ WaitingList(t) # <<>>
                /\ train_objs'[t].waiting_list = Tail(WaitingList(t))
             \/ /\ Books
                /\ train_objs'[t].waiting_list = Append(WaitingList(t), out'.pnr)
         ]_vars

\* a ticket has just been queued behind a ticket cancelled earlier
C19_Witness ==
    /\ op = "book_ticket"
    /\ out.msg = "booked"
    /\ out.status = "Waiting"
    /\ LET wl == WaitingList(tickets[out.pnr].train)
       IN /\ Len(wl) = 2
          /\ wl[2] = out.pnr
          /\ tickets[wl[1]].status = "Cancelled"
          /\ PnrValue(wl[1]) < PnrValue(wl[2])

====
